---- MODULE Spec2Model ----
(***************************************************************************)
(* Model of the merkletree-manager tree engine (src/src/merkletree.ts)     *)
(* of the rolling multi-tree pool MerkleHelper (src/unnamed/part_000) and   *)
(* of the MerkleManager that owns two pools and a nullifier set             *)
(* (src/src/manager.ts).                                                   *)
(*                                                                         *)
(* Values:                                                                 *)
(*   A byte array (Uint8Array) is the pair <<byteLength, bigint>>, where   *)
(*   bigint is the big-endian number the bytes denote.  A bigint is itself *)
(*   a tuple, so that any two values can be compared:                      *)
(*     <<n>>          the number n                                         *)
(*     <<l, r>>       the Poseidon hash of the two field elements l and r  *)
(*                    (a collision-free hash: a free term)                 *)
(*     <<"keccak256", "Railgun", "SNARK_SCALAR_FIELD">>                    *)
(*                    keccak256("Railgun") mod SNARK_SCALAR_FIELD          *)
(*   JavaScript's undefined is Undefined.  Arrays are sequences; the       *)
(*   source's 0-based index i is the sequence index i + 1.                 *)
(***************************************************************************)
EXTENDS Integers, Sequences, FiniteSets, TLC

\* ------------------------------------------------------------------ bounds
\* Pools are built with treeDepth in 1..MaxDepth.
MaxDepth == 2
\* Insertions stop once the pool holds MaxTotal leaves in all.
MaxTotal == 5
\* Under ManagerSpec insertions stop once the two pools of the manager hold
\* MaxManagerTotal leaves in all.
MaxManagerTotal == 3
\* Under ExampleSpec trees have depth 3..MaxExampleDepth.
MaxExampleDepth == 4

\* ------------------------------------------------------------------ values
Undefined == <<-1, <<>>>>

\* a ?? b
Nullish(a, b) == IF a = Undefined THEN b ELSE a

\* arr[i] of a JavaScript array (0-based; undefined outside the array)
At(arr, i) == IF i >= 0 /\ i < Len(arr) THEN arr[i + 1] ELSE Undefined

\* arr.slice(start, end), with JavaScript's treatment of negative and
\* oversized bounds
slice(arr, start, end) ==
  LET n  == Len(arr)
      s0 == IF start < 0 THEN (IF n + start < 0 THEN 0 ELSE n + start)
            ELSE (IF start > n THEN n ELSE start)
      e0 == IF end < 0 THEN (IF n + end < 0 THEN 0 ELSE n + end)
            ELSE (IF end > n THEN n ELSE end)
  IN  IF e0 <= s0 THEN <<>> ELSE SubSeq(arr, s0 + 1, e0)

\* big-endian value of a byte array
arrayToBigInt(a) == a[2]

\* the byte array of the given length that denotes the bigint v
bigIntToArray(v, length) == <<length, v>>

\* pad a byte array on the left to the given length, keeping its value
arrayToByteLength(a, length) == bigIntToArray(arrayToBigInt(a), length)

\* hex string of a byte array: two digits per byte
bytesToHex(a) == <<2 * a[1], a[2]>>

ZERO_HASH_BIGINT == <<"keccak256", "Railgun", "SNARK_SCALAR_FIELD">>

\* ------------------------------------------------------- MerkleTree (pure)
hashLeftRight(left, right) ==
  <<32, << arrayToBigInt(arrayToByteLength(left, 32)),
           arrayToBigInt(arrayToByteLength(right, 32)) >> >>

zeroValue == bigIntToArray(ZERO_HASH_BIGINT, 32)

RECURSIVE zeroLevelsFrom(_, _, _)
zeroLevelsFrom(levels, level, depth) ==
  IF level >= depth THEN levels
  ELSE zeroLevelsFrom(
         Append(levels, hashLeftRight(At(levels, level - 1), At(levels, level - 1))),
         level + 1, depth)

getZeroValueLevels(depth) == zeroLevelsFrom(<<zeroValue>>, 1, depth)

\* get root
MerkleTree_root(t) == At(At(t.tree, t.depth), 0)

\* get length
MerkleTree_length(t) == Len(At(t.tree, 0))

\* mutant of createTree: the new tree starts from the empty root and ignores
\* fromTree
createTree_ignoreFromTree(treeNumber, depth, fromTree) ==
  LET zeros == getZeroValueLevels(depth)
  IN  [ treeNumber |-> treeNumber,
        depth      |-> depth,
        zeros      |-> zeros,
        tree       |-> [l \in 1..(depth + 1) |->
                          IF l = depth + 1
                          THEN <<hashLeftRight(At(zeros, depth - 1), At(zeros, depth - 1))>>
                          ELSE <<>>] ]

\* fromTree is <<>> when the argument is absent and <<tree>> when given
createTree(treeNumber, depth, fromTree) ==
  LET zeros == getZeroValueLevels(depth)
      top   == Nullish(IF fromTree = <<>> THEN Undefined
                       ELSE MerkleTree_root(fromTree[1]),
                       hashLeftRight(At(zeros, depth - 1), At(zeros, depth - 1)))
  IN  [ treeNumber |-> treeNumber,
        depth      |-> depth,
        zeros      |-> zeros,
        tree       |-> [l \in 1..(depth + 1) |->
                          IF l = depth + 1 THEN <<top>> ELSE <<>>] ]

\* mutant of hashLevel: an unpaired last node is hashed with itself instead
\* of with the zero value of its level
hashLevel_duplicateLeft(lvl, zero) ==
  [k \in 1..((Len(lvl) + 1) \div 2) |->
     hashLeftRight(At(lvl, 2 * (k - 1)),
                   Nullish(At(lvl, 2 * (k - 1) + 1), At(lvl, 2 * (k - 1))))]

\* one pass of the inner loop of rebuildSparseTree: the level above lvl
hashLevel(lvl, zero) ==
  [k \in 1..((Len(lvl) + 1) \div 2) |->
     hashLeftRight(At(lvl, 2 * (k - 1)), Nullish(At(lvl, 2 * (k - 1) + 1), zero))]

RECURSIVE rebuildFrom(_, _, _, _)
rebuildFrom(tree, zeros, level, depth) ==
  IF level >= depth THEN tree
  ELSE rebuildFrom([tree EXCEPT ![level + 2] = hashLevel(tree[level + 1], At(zeros, level))],
                   zeros, level + 1, depth)

\* mutant of rebuildSparseTree: the loop stops one level early and never
\* recomputes levels[depth]
rebuildSparseTree_skipTop(t) ==
  [t EXCEPT !.tree = rebuildFrom(t.tree, t.zeros, 0, t.depth - 1)]

\* mutant of rebuildSparseTree: an odd number of leaves is first made even
\* by storing the zero leaf after the last one
rebuildSparseTree_padsLeaves(t) ==
  LET lv     == At(t.tree, 0)
      padded == IF Len(lv) % 2 = 1 THEN Append(lv, At(t.zeros, 0)) ELSE lv
  IN  [t EXCEPT !.tree = rebuildFrom([t.tree EXCEPT ![1] = padded],
                                     t.zeros, 0, t.depth)]

rebuildSparseTree(t) == [t EXCEPT !.tree = rebuildFrom(t.tree, t.zeros, 0, t.depth)]

\* mutant of MerkleTree_insertLeaves: the interior levels are rebuilt after
\* the leaves are written
MerkleTree_insertLeaves_rebuilds(t, leaves, startPosition) ==
  IF Len(leaves) = 0 THEN t
  ELSE
    LET old    == At(t.tree, 0)
        end    == startPosition + Len(leaves)
        newLen == IF end > Len(old) THEN end ELSE Len(old)
    IN  rebuildSparseTree([t EXCEPT !.tree[1] =
           [p \in 1..newLen |->
              IF p - 1 >= startPosition /\ p - 1 < end
              THEN leaves[p - startPosition]
              ELSE At(old, p - 1)]])

\* this.tree[0][startPosition + index] = leaf, for every leaf: the array
\* grows as needed, positions skipped over stay undefined
MerkleTree_insertLeaves(t, leaves, startPosition) ==
  IF Len(leaves) = 0 THEN t
  ELSE
    LET old    == At(t.tree, 0)
        end    == startPosition + Len(leaves)
        newLen == IF end > Len(old) THEN end ELSE Len(old)
    IN  [t EXCEPT !.tree[1] =
           [p \in 1..newLen |->
              IF p - 1 >= startPosition /\ p - 1 < end
              THEN leaves[p - startPosition]
              ELSE At(old, p - 1)]]

\* mutant of indexOfLeaf: the last matching position instead of the first
indexOfLeaf_lastMatch(leaves, element) ==
  LET hits == {i \in 0..(Len(leaves) - 1) :
                 arrayToBigInt(At(leaves, i)) = arrayToBigInt(element)}
  IN  IF hits = {} THEN -1
      ELSE CHOOSE i \in hits : \A j \in hits : i >= j

\* this.tree[0].map(arrayToBigInt).indexOf(arrayToBigInt(element))
indexOfLeaf(leaves, element) ==
  LET hits == {i \in 0..(Len(leaves) - 1) :
                 arrayToBigInt(At(leaves, i)) = arrayToBigInt(element)}
  IN  IF hits = {} THEN -1
      ELSE CHOOSE i \in hits : \A j \in hits : i <= j

\* mutant of proofElement: above the leaf level the sibling is always taken
\* to be the zero value of the level
proofElement_zerosAbove(t, level, index) ==
  IF level >= 1 THEN At(t.zeros, level)
  ELSE IF index % 2 = 0
  THEN Nullish(At(At(t.tree, level), index + 1), At(t.zeros, level))
  ELSE At(At(t.tree, level), index - 1)

\* mutant of proofElement: a missing right sibling is not replaced by the
\* zero value of the level
proofElement_noFallback(t, level, index) ==
  IF index % 2 = 0
  THEN At(At(t.tree, level), index + 1)
  ELSE At(At(t.tree, level), index - 1)

\* the sibling recorded at one level of the walk of generateProof
proofElement(t, level, index) ==
  IF index % 2 = 0
  THEN Nullish(At(At(t.tree, level), index + 1), At(t.zeros, level))
  ELSE At(At(t.tree, level), index - 1)

\* [threw |-> TRUE] when the element is not a leaf, else the proof
MerkleTree_generateProof(t, element) ==
  LET initialIndex == indexOfLeaf(At(t.tree, 0), element)
  IN  IF initialIndex = -1
      THEN [threw |-> TRUE, error |-> "Couldn't find element in the MerkleTree"]
      ELSE [threw |-> FALSE,
            proof |-> [ element  |-> element,
                        elements |-> [l \in 1..t.depth |->
                                        proofElement(t, l - 1, initialIndex \div (2 ^ (l - 1)))],
                        indices  |-> initialIndex,
                        root     |-> MerkleTree_root(t) ]]

RECURSIVE reduceProof(_, _, _, _)
reduceProof(elements, indices, index, current) ==
  IF index >= Len(elements) THEN current
  ELSE reduceProof(elements, indices, index + 1,
         IF (indices \div (2 ^ index)) % 2 = 1
         THEN hashLeftRight(At(elements, index), current)
         ELSE hashLeftRight(current, At(elements, index)))

\* hashing or printing undefined raises a TypeError: the call does not
\* return true
validateProof(proof) ==
  /\ proof.root # Undefined
  /\ proof.element # Undefined
  /\ \A i \in 1..Len(proof.elements) : proof.elements[i] # Undefined
  /\ bytesToHex(proof.root) =
       bytesToHex(reduceProof(proof.elements, proof.indices, 0, proof.element))

\* --------------------------------------------------------- inputs (leaves)
\* Leaves are opaque byte arrays: the one-byte array 0x01 and the 32-byte
\* array denoting 2.
LeafVals == { <<1, <<1>>>>, <<32, <<2>>>> }

\* An element no tree ever holds.
AbsentElement == <<32, <<3>>>>

\* The elements proofs are asked for: the leaves, the 32-byte array denoting
\* 1 (the same number as the one-byte leaf) and the absent element.
Elements == LeafVals \cup {<<32, <<1>>>>, AbsentElement}

\* all batches of exactly n leaves
Batches(n) == [1..n -> LeafVals]

\* one batch of exactly n leaves
OneBatch(n) == {[i \in 1..n |-> AbsentElement]}

\* --------------------------------------------------------------- the pool
VARIABLES
  treeDepth,         \* MerkleHelper.treeDepth
  trees,             \* MerkleHelper.trees
  currentTreeIndex,  \* MerkleHelper.currentTreeIndex
  result,            \* the last call and what it returned or threw
  inserted,          \* history: the leaves of all successful insertLeaves calls, in call order
  txid,              \* MerkleManager.txid: its trees and currentTreeIndex
  nullifiers,        \* MerkleManager.nullifiers
  accepted           \* history: the identifiers insertNullifier accepted, in call order

\* trees, currentTreeIndex and treeDepth are the pool MerkleManager.utxo
vars == <<treeDepth, trees, currentTreeIndex, result, inserted, txid, nullifiers, accepted>>

\* MerkleHelper.maxLeaves
maxLeaves == 2 ^ treeDepth

\* get currentTree: the tree, or undefined-tree fault
currentTreeOf(ts, cti) ==
  IF cti >= 0 /\ cti < Len(ts)
  THEN [threw |-> FALSE, tree |-> ts[cti + 1]]
  ELSE [threw |-> TRUE, error |-> "Current tree is undefined"]

currentTree == currentTreeOf(trees, currentTreeIndex).tree

\* mutant of finalizeTree: the current tree is left as it is
finalizeTree_skip(ts, cti) == ts

\* the pool after finalizeTree()
finalizeTree(ts, cti) ==
  [ts EXCEPT ![cti + 1] = rebuildSparseTree(currentTreeOf(ts, cti).tree)]

\* mutant of createNextTree: the new tree is appended but currentTreeIndex
\* is left as it was
createNextTree_keepIndex(ts, cti, depth) ==
  LET nextTreeNumber == Len(ts)
      newTree == createTree(nextTreeNumber, depth, <<currentTreeOf(ts, cti).tree>>)
  IN  [trees |-> Append(ts, newTree), currentTreeIndex |-> cti]

\* the pool <<trees, currentTreeIndex>> after createNextTree()
createNextTree(ts, cti, depth) ==
  LET nextTreeNumber == Len(ts)
      newTree == createTree(nextTreeNumber, depth, <<currentTreeOf(ts, cti).tree>>)
  IN  [trees |-> Append(ts, newTree), currentTreeIndex |-> nextTreeNumber]

\* mutant of invalidStartPosition: startPosition = maxLeaves is let through
invalidStartPosition_offByOne(startPosition, max) ==
  startPosition < 0 \/ startPosition > max

\* startPosition < 0 || startPosition >= this.maxLeaves
invalidStartPosition(startPosition, max) ==
  startPosition < 0 \/ startPosition >= max

\* mutant of startPositionMismatch: only gaps are refused, overwrites are not
startPositionMismatch_gapsOnly(startPosition, length) ==
  startPosition > length

\* mutant of startPositionMismatch: no start position inside the range is
\* taken to be misplaced
startPositionMismatch_never(startPosition, length) ==
  FALSE

\* startPosition !== this.currentTree.length
startPositionMismatch(startPosition, length) ==
  startPosition # length

\* mutant of needsNewTree: a batch that exactly fills the current tree
\* already opens the next one
needsNewTree_atCapacity(length, count, max) ==
  length + count >= max

\* this.currentTree.length + leaves.length > this.maxLeaves
needsNewTree(length, count, max) ==
  length + count > max

\* mutant of MerkleHelper_insertLeaves: a batch that fits is written into
\* the first tree of the pool
MerkleHelper_insertLeaves_intoFirst(ts, cti, depth, leaves, startPosition) ==
  LET max    == 2 ^ depth
      cur    == currentTreeOf(ts, cti).tree
      same   == [trees |-> ts, currentTreeIndex |-> cti]
  IN
  IF Len(leaves) = 0
  THEN same @@ [threw |-> FALSE, ret |-> cti]
  ELSE IF invalidStartPosition(startPosition, max)
  THEN same @@ [threw |-> TRUE, error |-> "Invalid start position"]
  ELSE IF startPositionMismatch(startPosition, MerkleTree_length(cur))
  THEN same @@ [threw |-> TRUE,
                error |-> "Start position does not match current tree length"]
  ELSE IF needsNewTree(MerkleTree_length(cur), Len(leaves), max)
  THEN
    LET remainingLeaves == max - MerkleTree_length(cur)
        ts1 == IF remainingLeaves > 0
               THEN [ts EXCEPT ![cti + 1] =
                       MerkleTree_insertLeaves(cur, slice(leaves, 0, remainingLeaves),
                                               startPosition)]
               ELSE ts
        newLeaves == slice(leaves, remainingLeaves, Len(leaves))
        ts2 == finalizeTree(ts1, cti)
        p3  == createNextTree(ts2, cti, depth)
        ts4 == [p3.trees EXCEPT ![p3.currentTreeIndex + 1] =
                  MerkleTree_insertLeaves(
                    currentTreeOf(p3.trees, p3.currentTreeIndex).tree, newLeaves, 0)]
    IN  [trees |-> ts4, currentTreeIndex |-> p3.currentTreeIndex,
         threw |-> FALSE, ret |-> p3.currentTreeIndex]
  ELSE
    [trees |-> [ts EXCEPT ![1] =
                  MerkleTree_insertLeaves(ts[1], leaves, startPosition)],
     currentTreeIndex |-> cti, threw |-> FALSE, ret |-> cti]

\* mutant of MerkleHelper_insertLeaves: the start position is checked before
\* the batch is looked at, an empty batch included
MerkleHelper_insertLeaves_checksFirst(ts, cti, depth, leaves, startPosition) ==
  LET max    == 2 ^ depth
      cur    == currentTreeOf(ts, cti).tree
      same   == [trees |-> ts, currentTreeIndex |-> cti]
  IN
  IF invalidStartPosition(startPosition, max)
  THEN same @@ [threw |-> TRUE, error |-> "Invalid start position"]
  ELSE IF startPositionMismatch(startPosition, MerkleTree_length(cur))
  THEN same @@ [threw |-> TRUE,
                error |-> "Start position does not match current tree length"]
  ELSE IF needsNewTree(MerkleTree_length(cur), Len(leaves), max)
  THEN
    LET remainingLeaves == max - MerkleTree_length(cur)
        ts1 == IF remainingLeaves > 0
               THEN [ts EXCEPT ![cti + 1] =
                       MerkleTree_insertLeaves(cur, slice(leaves, 0, remainingLeaves),
                                               startPosition)]
               ELSE ts
        newLeaves == slice(leaves, remainingLeaves, Len(leaves))
        ts2 == finalizeTree(ts1, cti)
        p3  == createNextTree(ts2, cti, depth)
        ts4 == [p3.trees EXCEPT ![p3.currentTreeIndex + 1] =
                  MerkleTree_insertLeaves(
                    currentTreeOf(p3.trees, p3.currentTreeIndex).tree, newLeaves, 0)]
    IN  [trees |-> ts4, currentTreeIndex |-> p3.currentTreeIndex,
         threw |-> FALSE, ret |-> p3.currentTreeIndex]
  ELSE
    [trees |-> [ts EXCEPT ![cti + 1] =
                  MerkleTree_insertLeaves(cur, leaves, startPosition)],
     currentTreeIndex |-> cti, threw |-> FALSE, ret |-> cti]

\* MerkleHelper.insertLeaves: the pool after the call and what the call
\* returned (ret) or threw (error)
MerkleHelper_insertLeaves(ts, cti, depth, leaves, startPosition) ==
  LET max    == 2 ^ depth
      cur    == currentTreeOf(ts, cti).tree
      same   == [trees |-> ts, currentTreeIndex |-> cti]
  IN
  IF Len(leaves) = 0
  THEN same @@ [threw |-> FALSE, ret |-> cti]
  ELSE IF invalidStartPosition(startPosition, max)
  THEN same @@ [threw |-> TRUE, error |-> "Invalid start position"]
  ELSE IF startPositionMismatch(startPosition, MerkleTree_length(cur))
  THEN same @@ [threw |-> TRUE,
                error |-> "Start position does not match current tree length"]
  ELSE IF needsNewTree(MerkleTree_length(cur), Len(leaves), max)
  THEN
    LET remainingLeaves == max - MerkleTree_length(cur)
        ts1 == IF remainingLeaves > 0
               THEN [ts EXCEPT ![cti + 1] =
                       MerkleTree_insertLeaves(cur, slice(leaves, 0, remainingLeaves),
                                               startPosition)]
               ELSE ts
        newLeaves == slice(leaves, remainingLeaves, Len(leaves))
        ts2 == finalizeTree(ts1, cti)
        p3  == createNextTree(ts2, cti, depth)
        ts4 == [p3.trees EXCEPT ![p3.currentTreeIndex + 1] =
                  MerkleTree_insertLeaves(
                    currentTreeOf(p3.trees, p3.currentTreeIndex).tree, newLeaves, 0)]
    IN  [trees |-> ts4, currentTreeIndex |-> p3.currentTreeIndex,
         threw |-> FALSE, ret |-> p3.currentTreeIndex]
  ELSE
    [trees |-> [ts EXCEPT ![cti + 1] =
                  MerkleTree_insertLeaves(cur, leaves, startPosition)],
     currentTreeIndex |-> cti, threw |-> FALSE, ret |-> cti]

\* the first tree, from index i on, whose generateProof does not throw
RECURSIVE searchTrees(_, _, _)
searchTrees(ts, element, i) ==
  IF i >= Len(ts)
  THEN [threw |-> TRUE, error |-> "Element not found in any tree"]
  ELSE LET r == MerkleTree_generateProof(ts[i + 1], element)
       IN  IF r.threw THEN searchTrees(ts, element, i + 1)
           ELSE [threw |-> FALSE, proof |-> r.proof, treeIndex |-> i]

\* mutant of MerkleHelper_generateProof: when the named tree lacks the
\* element the call goes on to search every tree
MerkleHelper_generateProof_fallBack(ts, element, given, treeIndex) ==
  LET r == IF given /\ treeIndex >= 0 /\ treeIndex < Len(ts)
           THEN MerkleTree_generateProof(ts[treeIndex + 1], element)
           ELSE [threw |-> TRUE]
  IN  IF r.threw THEN searchTrees(ts, element, 0)
      ELSE [threw |-> FALSE, proof |-> r.proof, treeIndex |-> treeIndex]

\* MerkleHelper.generateProof(element, treeIndex?); given = FALSE is the
\* call without a treeIndex
MerkleHelper_generateProof(ts, element, given, treeIndex) ==
  IF given /\ treeIndex >= 0 /\ treeIndex < Len(ts)
  THEN LET r == MerkleTree_generateProof(ts[treeIndex + 1], element)
       IN  IF r.threw THEN r
           ELSE [threw |-> FALSE, proof |-> r.proof, treeIndex |-> treeIndex]
  ELSE searchTrees(ts, element, 0)

\* get roots
MerkleHelper_roots == [i \in 1..Len(trees) |-> MerkleTree_root(trees[i])]

\* get root
MerkleHelper_root == MerkleTree_root(currentTree)

\* get depth
MerkleHelper_depth == currentTree.depth

\* ---------------------------------------------------------------- actions
RECURSIVE sumLengths(_, _)
sumLengths(ts, i) ==
  IF i > Len(ts) THEN 0 ELSE MerkleTree_length(ts[i]) + sumLengths(ts, i + 1)

TotalLeaves == sumLengths(trees, 1) + sumLengths(txid.trees, 1)

\* new MerkleManager(treeDepth): two pools, each new MerkleHelper(treeDepth),
\* and an empty set of nullifiers
Init ==
  /\ treeDepth \in 1..MaxDepth
  /\ trees = <<createTree(0, treeDepth, <<>>)>>
  /\ currentTreeIndex = 0
  /\ txid = [trees |-> <<createTree(0, treeDepth, <<>>)>>, currentTreeIndex |-> 0]
  /\ nullifiers = {}
  /\ accepted = <<>>
  /\ result = [op |-> "constructor"]
  /\ inserted = <<>>

InsertLeaves(leaves, startPosition) ==
  LET r == MerkleHelper_insertLeaves(trees, currentTreeIndex, treeDepth,
                                     leaves, startPosition)
  IN  /\ trees' = r.trees
      /\ currentTreeIndex' = r.currentTreeIndex
      /\ result' = [op |-> "insertLeaves",
                    empty |-> (Len(leaves) = 0),
                    startPosition |-> startPosition,
                    threw |-> r.threw,
                    error |-> IF r.threw THEN r.error ELSE "",
                    ret |-> IF r.threw THEN -1 ELSE r.ret]
      /\ inserted' = IF r.threw THEN inserted ELSE inserted \o leaves
      /\ UNCHANGED <<treeDepth, txid, nullifiers, accepted>>

FinalizeTree ==
  /\ trees' = finalizeTree(trees, currentTreeIndex)
  /\ result' = [op |-> "finalizeTree"]
  /\ UNCHANGED <<treeDepth, currentTreeIndex, inserted, txid, nullifiers, accepted>>

GenerateProof(element, given, treeIndex) ==
  LET r == MerkleHelper_generateProof(trees, element, given, treeIndex)
  IN  /\ result' = [op |-> "generateProof",
                    element |-> element,
                    given |-> given,
                    treeIndexArg |-> treeIndex] @@ r
      /\ UNCHANGED <<treeDepth, trees, currentTreeIndex, inserted, txid, nullifiers, accepted>>

\* The calls a client makes on the pool utxo.  insertLeaves is called with every batch that
\* keeps the pool within MaxTotal leaves at the contiguous start position,
\* and with one batch of each length at every other start position (no
\* leaf of a batch placed elsewhere is ever read).
Next ==
  \/ \E n \in 0..(MaxTotal - TotalLeaves) :
       \E startPosition \in -1..(maxLeaves + 1) :
         \E leaves \in (IF startPosition = MerkleTree_length(currentTree)
                         THEN Batches(n) ELSE OneBatch(n)) :
           InsertLeaves(leaves, startPosition)
  \/ FinalizeTree
  \/ \E element \in Elements :
       \E given \in BOOLEAN :
         \E treeIndex \in -1..Len(trees) :
           (given \/ treeIndex = -1) /\ GenerateProof(element, given, treeIndex)

Spec == Init /\ [][Next]_vars

\* ------------------------------------------------------------ the manager
\* the identifiers nullifiers are inserted and checked with
NullifierIds == {"n1", "n2"}

\* mutant of MerkleManager_insertNullifier: a duplicate is ignored, not
\* refused
MerkleManager_insertNullifier_ignoreDuplicate(set, nullifier) ==
  [nullifiers |-> set \cup {nullifier}, threw |-> FALSE, error |-> ""]

\* MerkleManager.insertNullifier: the set after the call, and its error
MerkleManager_insertNullifier(set, nullifier) ==
  IF nullifier \in set
  THEN [nullifiers |-> set, threw |-> TRUE, error |-> "Nullifier already exists"]
  ELSE [nullifiers |-> set \cup {nullifier}, threw |-> FALSE, error |-> ""]

\* MerkleManager.checkNullifier
MerkleManager_checkNullifier(set, nullifier) == nullifier \in set

\* mutant of InsertTXIDLeaves: the leaves go to the utxo pool
InsertTXIDLeaves_intoUtxo(leaves, startPosition) ==
  LET r == MerkleHelper_insertLeaves(trees, currentTreeIndex, treeDepth,
                                     leaves, startPosition)
  IN  /\ trees' = r.trees
      /\ currentTreeIndex' = r.currentTreeIndex
      /\ result' = [op |-> "insertTXIDLeaves",
                    empty |-> (Len(leaves) = 0),
                    startPosition |-> startPosition,
                    threw |-> r.threw,
                    error |-> IF r.threw THEN r.error ELSE ""]
      /\ UNCHANGED <<treeDepth, txid, inserted, nullifiers, accepted>>

\* MerkleManager.insertTXIDLeaves: this.txid.insertLeaves(leaves, startPosition)
InsertTXIDLeaves(leaves, startPosition) ==
  LET r == MerkleHelper_insertLeaves(txid.trees, txid.currentTreeIndex, treeDepth,
                                     leaves, startPosition)
  IN  /\ txid' = [trees |-> r.trees, currentTreeIndex |-> r.currentTreeIndex]
      /\ result' = [op |-> "insertTXIDLeaves",
                    empty |-> (Len(leaves) = 0),
                    startPosition |-> startPosition,
                    threw |-> r.threw,
                    error |-> IF r.threw THEN r.error ELSE ""]
      /\ UNCHANGED <<treeDepth, trees, currentTreeIndex, inserted, nullifiers, accepted>>

InsertNullifier(nullifier) ==
  LET r == MerkleManager_insertNullifier(nullifiers, nullifier)
  IN  /\ nullifiers' = r.nullifiers
      /\ result' = [op |-> "insertNullifier", nullifier |-> nullifier,
                    threw |-> r.threw, error |-> r.error]
      /\ accepted' = IF r.threw THEN accepted ELSE Append(accepted, nullifier)
      /\ UNCHANGED <<treeDepth, trees, currentTreeIndex, inserted, txid>>

CheckNullifier(nullifier) ==
  /\ result' = [op |-> "checkNullifier", nullifier |-> nullifier,
                ret |-> MerkleManager_checkNullifier(nullifiers, nullifier)]
  /\ UNCHANGED <<treeDepth, trees, currentTreeIndex, inserted, txid, nullifiers, accepted>>

\* this.txid.finalizeTree(): MerkleHelper.finalizeTree on the public pool txid
FinalizeTXIDTree ==
  /\ txid' = [trees |-> finalizeTree(txid.trees, txid.currentTreeIndex),
              currentTreeIndex |-> txid.currentTreeIndex]
  /\ result' = [op |-> "txid.finalizeTree"]
  /\ UNCHANGED <<treeDepth, trees, currentTreeIndex, inserted, nullifiers, accepted>>

\* the start positions tried on a pool: a negative one, the contiguous one,
\* the one after it, and the capacity
ManagerStartPositions(ts, cti) ==
  {-1, MerkleTree_length(currentTreeOf(ts, cti).tree),
   MerkleTree_length(currentTreeOf(ts, cti).tree) + 1, maxLeaves}

\* The calls a client makes on a MerkleManager: its own methods, and
\* insertLeaves and finalizeTree on its public pools utxo and txid
\* (insertTXIDLeaves is insertLeaves on txid).
ManagerNext ==
  \/ \E n \in 0..(MaxManagerTotal - TotalLeaves) :
       \E startPosition \in ManagerStartPositions(txid.trees, txid.currentTreeIndex) :
         \E leaves \in (IF startPosition = MerkleTree_length(
                               currentTreeOf(txid.trees, txid.currentTreeIndex).tree)
                         THEN Batches(n) ELSE OneBatch(n)) :
           InsertTXIDLeaves(leaves, startPosition)
  \/ \E nullifier \in NullifierIds : InsertNullifier(nullifier)
  \/ \E nullifier \in NullifierIds : CheckNullifier(nullifier)
  \/ \E n \in 0..(MaxManagerTotal - TotalLeaves) :
       \E startPosition \in ManagerStartPositions(trees, currentTreeIndex) :
         \E leaves \in (IF startPosition = MerkleTree_length(currentTree)
                         THEN Batches(n) ELSE OneBatch(n)) :
           InsertLeaves(leaves, startPosition)
  \/ FinalizeTree
  \/ FinalizeTXIDTree

ManagerSpec == Init /\ [][ManagerNext]_vars

\* ------------------------------------------------------ the worked example
\* the leaves of the test 'should update merkle tree correctly.': the
\* one-byte arrays 0x02, 0x04, 0x08, 0x10, 0x20, 0x40
ExampleLeafVals == { <<1, <<2>>>>, <<1, <<4>>>>, <<1, <<8>>>>,
                     <<1, <<16>>>>, <<1, <<32>>>>, <<1, <<64>>>> }

\* the six leaves in every order
ExampleBatches ==
  {b \in [1..6 -> ExampleLeafVals] : \A i, j \in 1..6 : b[i] = b[j] => i = j}

\* a fresh tree of depth 3..MaxExampleDepth
ExampleInit ==
  /\ treeDepth \in 3..MaxExampleDepth
  /\ trees = <<createTree(0, treeDepth, <<>>)>>
  /\ currentTreeIndex = 0
  /\ txid = [trees |-> <<createTree(0, treeDepth, <<>>)>>, currentTreeIndex |-> 0]
  /\ nullifiers = {}
  /\ accepted = <<>>
  /\ result = [op |-> "constructor"]
  /\ inserted = <<>>

\* the test's calls in the test's order: insertLeaves(six leaves, 0),
\* rebuildSparseTree(), generateProof(the fourth leaf)
ExampleNext ==
  \/ /\ result.op = "constructor"
     /\ \E leaves \in ExampleBatches : InsertLeaves(leaves, 0)
  \/ /\ result.op = "insertLeaves"
     /\ FinalizeTree
  \/ /\ result.op = "finalizeTree"
     /\ GenerateProof(inserted[4], FALSE, -1)

ExampleSpec == ExampleInit /\ [][ExampleNext]_vars

\* ----------------------------------------------------------------- claims
\* the leaves of a tree, levels[0]
leavesOf(t) == At(t.tree, 0)

\* the tree was rebuilt by the last call: finalizeTree() has just returned
JustFinalized == result.op = "finalizeTree"

\* every leaf of tree t has a proof that validateProof accepts
RoundTrips(t) ==
  \A i \in 0..(MerkleTree_length(t) - 1) :
    LET r == MerkleTree_generateProof(t, At(leavesOf(t), i))
    IN  ~r.threw /\ validateProof(r.proof)

\* C1: proof round trip.  Right after a finalize, every leaf held in
\* levels[0] of the finalized tree (duplicates included) has a proof that
\* validateProof accepts.
C1_ProofRoundTrip == JustFinalized => RoundTrips(currentTree)

\* a non-empty insertLeaves at startPosition would return, not throw
InsertSucceeds(startPosition) ==
  ~MerkleHelper_insertLeaves(trees, currentTreeIndex, treeDepth,
                             <<zeroValue>>, startPosition).threw

\* a non-empty insertLeaves at startPosition would open a new tree
InsertSpills(startPosition) ==
  LET r == MerkleHelper_insertLeaves(trees, currentTreeIndex, treeDepth,
                                     <<zeroValue>>, startPosition)
  IN  ~r.threw /\ Len(r.trees) = Len(trees) + 1

\* every startPosition a caller may try in the current state
StartPositions == -1..(maxLeaves + MerkleTree_length(currentTree) + 1)

\* C2: capacity rollover is always available.  In every reachable pool
\* state some startPosition lets a non-empty insertLeaves succeed, and when
\* the current tree holds exactly 2^depth leaves the next non-empty
\* insertion spills into a new tree instead of failing.
C2_RolloverAvailable ==
  /\ \E sp \in StartPositions : InsertSucceeds(sp)
  /\ MerkleTree_length(currentTree) = maxLeaves =>
       \E sp \in StartPositions : InsertSpills(sp)

\* C3: capacity bound.  Every tree of the pool holds at most 2^depth
\* leaves, whatever the lengths of the batches inserted.
C3_CapacityBound ==
  \A i \in 1..Len(trees) : MerkleTree_length(trees[i]) <= 2 ^ trees[i].depth

\* C4: in every reachable state every tree's levels[depth] holds exactly
\* one hash, and the root accessor returns that defined hash.
C4_SingleRoot ==
  \A i \in 1..Len(trees) :
    /\ Len(At(trees[i].tree, trees[i].depth)) = 1
    /\ MerkleTree_root(trees[i]) # Undefined

\* the 2^depth leaves of the complete tree: the given leaves, then zero leaves
paddedLeaves(leaves, d) ==
  [p \in 1..(2 ^ d) |-> IF p <= Len(leaves) THEN leaves[p] ELSE zeroValue]

\* the root of a complete binary hash tree over 2^k nodes
RECURSIVE completeRoot(_)
completeRoot(nodes) ==
  IF Len(nodes) = 1 THEN nodes[1]
  ELSE completeRoot([k \in 1..(Len(nodes) \div 2) |->
                       hashLeftRight(nodes[2 * k - 1], nodes[2 * k])])

\* C5: root definition.  Right after a finalize of a tree holding n leaves,
\* 1 <= n <= 2^depth, the root is the root of the complete depth-level hash
\* tree whose first n leaves are levels[0] and whose other leaves are the
\* zero leaf.
C5_RootDefinition ==
  (JustFinalized /\ MerkleTree_length(currentTree) >= 1
                 /\ MerkleTree_length(currentTree) <= maxLeaves)
  => MerkleHelper_root = completeRoot(paddedLeaves(leavesOf(currentTree), treeDepth))

\* C5 witness: a depth-2 tree finalized with one leaf, whose unpaired nodes at
\* levels 0 and 1 are both hashed with the zero value of their level.
C5_Witness ==
  JustFinalized /\ treeDepth = 2 /\ MerkleTree_length(currentTree) = 1
                /\ MerkleHelper_root # Undefined

\* the call made by the step was insertLeaves with the given kind of batch
\* and start position (read in the state after the step)
InsertCalled == result.op = "insertLeaves"

\* the step left trees, their levels and currentTreeIndex as they were, and
\* the call threw the given error
ThrewUnchanged(error) ==
  /\ result'.threw
  /\ result'.error = error
  /\ trees' = trees
  /\ currentTreeIndex' = currentTreeIndex

\* a start position inside [0, capacity) other than the current leaf count
MisplacedStart(startPosition) ==
  /\ startPosition >= 0
  /\ startPosition < maxLeaves
  /\ startPosition # MerkleTree_length(currentTree)

\* C6 as stated: contiguity enforcement.  Any insertLeaves call whose
\* startPosition lies in [0, capacity) and differs from the current tree's
\* leaf count fails with the non-contiguous-insertion error and leaves the
\* pool unchanged.
C6_AnyCallFails ==
  [][ (InsertCalled' /\ MisplacedStart(result'.startPosition))
      => ThrewUnchanged("Start position does not match current tree length") ]_vars

\* C6 amended: any insertLeaves call with a non-empty batch whose
\* startPosition lies in [0, capacity) and differs from the current tree's
\* leaf count fails with the non-contiguous-insertion error and leaves the
\* pool unchanged.
C6_ContiguityEnforced ==
  [][ (InsertCalled' /\ ~result'.empty /\ MisplacedStart(result'.startPosition))
      => ThrewUnchanged("Start position does not match current tree length") ]_vars

\* C6 witness: a non-empty insertion at a position below the leaf count (an
\* overwrite) was refused.
C6_Witness ==
  /\ InsertCalled /\ ~result.empty /\ result.threw
  /\ result.startPosition >= 0
  /\ result.startPosition < MerkleTree_length(currentTree)
  /\ MerkleTree_length(currentTree) <= maxLeaves

\* a start position outside [0, capacity)
OutOfRangeStart(startPosition) ==
  startPosition < 0 \/ startPosition >= maxLeaves

\* C7 as stated: invalid offset.  Any insertLeaves call with
\* startPosition < 0 or startPosition >= capacity fails with the
\* out-of-range error and leaves the pool unchanged.
C7_AnyCallFails ==
  [][ (InsertCalled' /\ OutOfRangeStart(result'.startPosition))
      => ThrewUnchanged("Invalid start position") ]_vars

\* C7 amended: any insertLeaves call with a non-empty batch and
\* startPosition < 0 or startPosition >= capacity fails with the
\* out-of-range error (also when the position differs from the leaf count)
\* and leaves the pool unchanged.
C7_InvalidOffset ==
  [][ (InsertCalled' /\ ~result'.empty /\ OutOfRangeStart(result'.startPosition))
      => ThrewUnchanged("Invalid start position") ]_vars

\* C7 witness: a non-empty insertion at startPosition = capacity, which also
\* differs from the leaf count, was refused.
C7_Witness ==
  /\ InsertCalled /\ ~result.empty /\ result.threw
  /\ result.startPosition = maxLeaves
  /\ result.startPosition # MerkleTree_length(currentTree)

\* C8: capacity spill.  When an insertion into a one-tree pool overflows, the
\* pool has exactly two trees; the first holds exactly the first capacity
\* inserted leaves and its root is the finalized root of those leaves; the
\* second holds the overflow leaves from position 0 on, and its root and the
\* pool's root equal the first tree's root; and that stays so for every later
\* call other than finalizeTree that keeps the pool at two trees.
C8_CapacitySpill ==
  [][ /\ (Len(trees) = 1 /\ Len(trees') # 1) =>
           /\ Len(trees') = 2
           /\ Len(inserted') > maxLeaves
           /\ leavesOf(trees'[1]) = SubSeq(inserted', 1, maxLeaves)
           /\ MerkleTree_root(trees'[1])
                = completeRoot(paddedLeaves(leavesOf(trees'[1]), treeDepth))
           /\ leavesOf(trees'[2]) = SubSeq(inserted', maxLeaves + 1, Len(inserted'))
           /\ MerkleTree_root(trees'[2]) = MerkleTree_root(trees'[1])
           /\ MerkleHelper_root' = MerkleTree_root(trees'[1])
      /\ (Len(trees) = 2 /\ Len(trees') = 2 /\ result'.op # "finalizeTree") =>
           /\ MerkleTree_root(trees'[2]) = MerkleTree_root(trees[2])
           /\ MerkleTree_root(trees'[1]) = MerkleTree_root(trees[1])
    ]_vars

\* C8 witness: a depth-2 pool just after the spilling insertion, the second
\* tree holding the overflow under the first tree's root.
C8_Witness ==
  /\ treeDepth = 2 /\ Len(trees) = 2
  /\ InsertCalled /\ ~result.threw /\ result.ret = 1
  /\ MerkleTree_length(trees[1]) = maxLeaves
  /\ MerkleTree_length(trees[2]) >= 1
  /\ MerkleHelper_root = MerkleTree_root(trees[1])

\* the tree before the current one
previousTree == trees[currentTreeIndex]

\* the overflow leaves are in the new tree and finalizeTree has run
SpilledAndFinalized ==
  JustFinalized /\ currentTreeIndex >= 1 /\ MerkleTree_length(currentTree) >= 1

\* the first 2^depth leaves of a tree, padded with zero leaves, as 32-byte values
canonicalLeaves(t) ==
  [p \in 1..(2 ^ t.depth) |->
     arrayToByteLength(IF p <= MerkleTree_length(t) THEN leavesOf(t)[p]
                       ELSE zeroValue, 32)]

\* C9 as stated: once the overflow leaves are in the new tree and
\* finalizeTree has run, the new tree's root differs from the placeholder
\* (the predecessor's finalized root), whatever the leaf values.
C9_AlwaysReplaced ==
  SpilledAndFinalized => MerkleHelper_root # MerkleTree_root(previousTree)

\* C9 amended: once the overflow leaves are in the new tree and finalizeTree
\* has run, the new tree's root differs from the placeholder exactly when the
\* new tree's first 2^depth leaves, padded with zero leaves, differ in value
\* from the predecessor's leaves.
C9_ReplacedUnlessSameLeaves ==
  SpilledAndFinalized =>
    ( (MerkleHelper_root # MerkleTree_root(previousTree))
      <=> (canonicalLeaves(currentTree) # canonicalLeaves(previousTree)) )

\* C9 witness: a finalized successor tree whose root has left the placeholder.
C9_Witness ==
  /\ SpilledAndFinalized
  /\ MerkleHelper_root # Undefined
  /\ MerkleHelper_root # MerkleTree_root(previousTree)

\* tree t holds the element at its leaf level
Contains(t, element) ==
  \E i \in 1..MerkleTree_length(t) :
    arrayToBigInt(leavesOf(t)[i]) = arrayToBigInt(element)

\* the 0-based indices of the trees that hold the element
Holders(element) == {i \in 0..(Len(trees) - 1) : Contains(trees[i + 1], element)}

\* the call returned the proof of the tree at 0-based index i, with i
ReturnedFrom(i) ==
  /\ ~result.threw
  /\ result.treeIndex = i
  /\ result.proof = MerkleTree_generateProof(trees[i + 1], result.element).proof

\* C10: pool proof routing.  With a treeIndex in range the call consults that
\* tree only, failing with not-found when it lacks the element; with
\* treeIndex absent or out of range it returns the proof and index of the
\* lowest-indexed tree holding the element, failing only if no tree holds it.
C10_ProofRouting ==
  result.op = "generateProof" =>
    IF result.given /\ result.treeIndexArg >= 0 /\ result.treeIndexArg < Len(trees)
    THEN IF Contains(trees[result.treeIndexArg + 1], result.element)
         THEN ReturnedFrom(result.treeIndexArg)
         ELSE result.threw
    ELSE IF Holders(result.element) = {}
         THEN result.threw /\ result.error = "Element not found in any tree"
         ELSE \E i \in Holders(result.element) :
                /\ \A j \in Holders(result.element) : i <= j
                /\ ReturnedFrom(i)

\* C10 witness: a proof asked of tree 1, which lacks the element, failed
\* although tree 0 holds the element.
C10_Witness ==
  /\ result.op = "generateProof" /\ result.given /\ result.treeIndexArg = 1
  /\ Len(trees) >= 2 /\ result.threw
  /\ 0 \in Holders(result.element)

\* the pool is well formed: trees is non-empty, currentTreeIndex names its
\* last tree, and tree i has number i and the pool's depth
PoolWellFormed ==
  /\ Len(trees) >= 1
  /\ currentTreeIndex = Len(trees) - 1
  /\ ~currentTreeOf(trees, currentTreeIndex).threw
  /\ \A i \in 1..Len(trees) :
       /\ trees[i].depth = treeDepth
       /\ trees[i].treeNumber = i - 1

\* a step only appends to trees: every tree keeps its place and identity,
\* and currentTreeIndex does not decrease
OnlyAppends ==
  /\ Len(trees') >= Len(trees)
  /\ currentTreeIndex' >= currentTreeIndex
  /\ \A i \in 1..Len(trees) :
       /\ trees'[i].treeNumber = trees[i].treeNumber
       /\ trees'[i].depth = trees[i].depth
       /\ trees'[i].zeros = trees[i].zeros

\* C11: pool structural invariant.  In every reachable pool state trees is
\* non-empty, currentTreeIndex = trees.length - 1, the current tree is
\* defined, every tree has the pool's depth and trees[i].treeNumber = i; and
\* every step only appends to trees and never decreases currentTreeIndex.
C11_PoolStructure == []PoolWellFormed /\ [][OnlyAppends]_vars

\* C11 witness: a pool that has grown to three trees.
C11_Witness ==
  Len(trees) = 3 /\ currentTreeIndex = 2 /\ trees[3].treeNumber = 2

\* the identifiers accepted so far
AcceptedIds == {accepted[i] : i \in 1..Len(accepted)}

\* no identifier was accepted twice
AcceptedOnce ==
  \A i, j \in 1..Len(accepted) : accepted[i] = accepted[j] => i = j

\* what a nullifier call of this step must have done, given the identifiers
\* accepted before it
NullifierStep ==
  /\ result'.op = "insertNullifier" =>
       /\ result'.threw <=> (result'.nullifier \in AcceptedIds)
       /\ result'.threw =>
            /\ result'.error = "Nullifier already exists"
            /\ nullifiers' = nullifiers
       /\ ~result'.threw => nullifiers' = nullifiers \cup {result'.nullifier}
  /\ result'.op = "checkNullifier" =>
       /\ result'.ret <=> (result'.nullifier \in AcceptedIds)
       /\ nullifiers' = nullifiers

\* C12: nullifier uniqueness.  insertNullifier(id) fails with the duplicate
\* error exactly when id was accepted before, and then leaves the set
\* unchanged; otherwise it adds id.  checkNullifier(id) returns true exactly
\* when id was accepted before.  No identifier is accepted twice.
C12_NullifierUniqueness == []AcceptedOnce /\ [][NullifierStep]_vars

\* C12 witness: a second insertion of an accepted identifier was refused.
C12_Witness ==
  /\ result.op = "insertNullifier" /\ result.threw
  /\ result.nullifier \in AcceptedIds
  /\ Len(accepted) = 2

\* the levels above the leaves are the ones rebuildSparseTree computes from
\* the leaves
Finalized(t) == t.tree = rebuildSparseTree(t).tree

\* the worked example has run: six distinct leaves inserted at 0 into a
\* fresh tree, the tree finalized, the proof of the fourth leaf returned
ExampleProved ==
  /\ result.op = "generateProof" /\ ~result.threw
  /\ Len(inserted) = 6 /\ leavesOf(currentTree) = inserted
  /\ \A i, j \in 1..6 : inserted[i] = inserted[j] => i = j
  /\ result.element = inserted[4]
  /\ Finalized(currentTree)

\* C13 as stated: the proof of the fourth of six leaves has indices 3, the
\* third leaf as first element, and the zero values zeros[1..depth-1] as its
\* elements at levels 1..depth-1.
C13_ZeroChainAbove ==
  ExampleProved =>
    /\ result.proof.indices = 3
    /\ result.proof.elements[1] = inserted[3]
    /\ \A l \in 1..(treeDepth - 1) :
         result.proof.elements[l + 1] = At(currentTree.zeros, l)

\* C13 amended: the proof of the fourth of six leaves has indices 3, the
\* third leaf as first element, the hash of the first two leaves at level 1,
\* the hash of (the hash of the fifth and sixth leaves, zeros[1]) at level 2,
\* and the zero values zeros[3..depth-1] at levels 3..depth-1.
C13_WorkedExample ==
  ExampleProved =>
    /\ result.proof.indices = 3
    /\ Len(result.proof.elements) = treeDepth
    /\ result.proof.elements[1] = inserted[3]
    /\ result.proof.elements[2] = hashLeftRight(inserted[1], inserted[2])
    /\ result.proof.elements[3] =
         hashLeftRight(hashLeftRight(inserted[5], inserted[6]),
                       At(currentTree.zeros, 1))
    /\ \A l \in 3..(treeDepth - 1) :
         result.proof.elements[l + 1] = At(currentTree.zeros, l)

\* C13 witness: the worked example on a tree of depth 4, whose proof ends in
\* a zero value.
C13_Witness ==
  ExampleProved /\ treeDepth = 4 /\ result.proof.indices = 3

\* a proof generateProof has just returned from a finalized tree
ProofOfFinalized ==
  /\ result.op = "generateProof" /\ ~result.threw
  /\ Finalized(trees[result.treeIndex + 1])

\* the byte arrays a tamperer may put in place of a proof's field: the
\* elements, the zero values, and the nodes of the tree the proof came from
TamperValues ==
  LET t == trees[result.treeIndex + 1]
  IN  Elements \cup {t.zeros[l] : l \in 1..Len(t.zeros)}
        \cup UNION {{t.tree[l][i] : i \in 1..Len(t.tree[l])} : l \in 1..Len(t.tree)}

\* the proofs that differ from p in exactly one field: another number for
\* element, for one entry of elements or for root, another unsigned integer
\* for indices
Tampered(p) ==
  {[p EXCEPT !.element = v] :
     v \in {w \in TamperValues : arrayToBigInt(w) # arrayToBigInt(p.element)}}
  \cup UNION {{[p EXCEPT !.elements[i] = v] :
                 v \in {w \in TamperValues :
                          arrayToBigInt(w) # arrayToBigInt(p.elements[i])}} :
              i \in 1..Len(p.elements)}
  \cup {[p EXCEPT !.root = v] :
          v \in {w \in TamperValues : arrayToBigInt(w) # arrayToBigInt(p.root)}}
  \cup {[p EXCEPT !.indices = n] :
          n \in (0..(2 ^ (treeDepth + 1) - 1)) \ {p.indices}}

\* C14: for a proof produced by generateProof on a finalized tree, replacing
\* element, one entry of elements, root or indices by a different value makes
\* validateProof return false.
C14_TamperSensitivity ==
  ProofOfFinalized =>
    \A q \in Tampered(result.proof) : ~validateProof(q)

\* zeros is the zero chain of depth d
IsZeroChain(zeros, d) ==
  /\ Len(zeros) = d
  /\ zeros[1] = zeroValue
  /\ \A i \in 1..(d - 1) : zeros[i + 1] = hashLeftRight(zeros[i], zeros[i])

\* createTree(treeNumber, d) and createTree(treeNumber, d, fromTree) start
\* as the claim says
StartsAsClaimed(d, fromTree) ==
  LET fresh == createTree(0, d, <<>>)
      next  == createTree(fromTree.treeNumber + 1, d, <<fromTree>>)
  IN  /\ IsZeroChain(fresh.zeros, d) /\ IsZeroChain(next.zeros, d)
      /\ MerkleTree_root(fresh) = hashLeftRight(fresh.zeros[d], fresh.zeros[d])
      /\ MerkleTree_root(next) = MerkleTree_root(fromTree)
      /\ \A l \in 1..d : fresh.tree[l] = <<>> /\ next.tree[l] = <<>>
      /\ Len(fresh.tree) = d + 1 /\ Len(next.tree) = d + 1

\* C15: for every depth d >= 1 createTree yields the zero chain of d
\* entries; without fromTree the root is hash(zeros[d-1], zeros[d-1]) and
\* with fromTree (any tree of the pool) it is fromTree's current root; the
\* levels below depth start empty; trees and pools of one depth have the
\* same zeros.
C15_ZeroChainAndEmptyRoot ==
  /\ \A d \in 1..MaxDepth : \A i \in 1..Len(trees) : StartsAsClaimed(d, trees[i])
  /\ \A i \in 1..Len(trees) : trees[i].zeros = createTree(0, treeDepth, <<>>).zeros
  /\ \A i \in 1..Len(txid.trees) : txid.trees[i].zeros = trees[1].zeros

\* the last entry of a non-empty sequence
Last(seq) == seq[Len(seq)]

\* what a successful insertLeaves of this step returned, against the pool
\* before and after it
ReturnsHolder ==
  (result'.op = "insertLeaves" /\ ~result'.threw) =>
    /\ result'.ret = currentTreeIndex'
    /\ Len(trees') \in {Len(trees), Len(trees) + 1}
    /\ Len(trees') = Len(trees) => result'.ret = currentTreeIndex
    /\ Len(trees') = Len(trees) + 1 => result'.ret = currentTreeIndex + 1
    /\ ~result'.empty =>
         LET holder == trees'[result'.ret + 1]
         IN  /\ MerkleTree_length(holder) >= 1
             /\ Last(leavesOf(holder)) = Last(inserted')
             /\ result'.ret = currentTreeIndex =>
                  MerkleTree_length(holder) > MerkleTree_length(currentTree)

\* C16: every successful MerkleHelper.insertLeaves returns the index of the
\* tree that holds the last leaf of the batch, which is currentTreeIndex
\* after the call: the previous currentTreeIndex when no tree was created,
\* the previous currentTreeIndex + 1 when one was, and never more than one
\* tree is created by a call.
C16_InsertReturnValue == [][ReturnsHolder]_vars

\* C16 witness: the second spilling insertion has returned 2, and the third
\* tree ends with the last leaf inserted.
C16_Witness ==
  /\ InsertCalled /\ ~result.threw /\ ~result.empty
  /\ result.ret = 2 /\ currentTreeIndex = 2
  /\ Last(leavesOf(trees[3])) = Last(inserted)

\* the nodes stored at level l of tree t
StoredAt(t, l) == {At(At(t.tree, l), i) : i \in 0..(Len(At(t.tree, l)) - 1)}

\* the proof of the leaf at position p of tree t is well formed: depth
\* elements, each a stored node of its level or the level's zero value, and
\* the root the tree holds since its last finalize
WellFormedProof(t, p) ==
  LET r == MerkleTree_generateProof(t, At(leavesOf(t), p))
  IN  /\ ~r.threw
      /\ Len(r.proof.elements) = t.depth
      /\ \A l \in 0..(t.depth - 1) :
           /\ At(r.proof.elements, l) # Undefined
           /\ At(r.proof.elements, l) \in StoredAt(t, l) \cup {At(t.zeros, l)}
      /\ r.proof.root = MerkleTree_root(t)

\* C17: in every state of every tree, finalized or stale, generateProof of
\* every leaf present in levels[0] returns a proof with exactly depth
\* elements, each a defined hash (a stored node or the level's zero value),
\* and the root as of the last finalize.
C17_WellFormedProofs ==
  \A i \in 1..Len(trees) :
    \A p \in 0..(MerkleTree_length(trees[i]) - 1) : WellFormedProof(trees[i], p)

\* x XOR 1
FlipLowBit(x) == IF x % 2 = 0 THEN x + 1 ELSE x - 1

\* proof p carries, at every level, the sibling of the path of position
\* p.indices in tree t: the stored node when there is one, else the zero value
SiblingStructure(t, p) ==
  /\ Len(p.elements) = t.depth
  /\ \A l \in 0..(t.depth - 1) :
       LET sibling == FlipLowBit(p.indices \div (2 ^ l))
       IN  At(p.elements, l) =
             IF sibling < Len(At(t.tree, l))
             THEN At(At(t.tree, l), sibling)
             ELSE At(t.zeros, l)

\* C18: on a finalized tree, the proof generateProof returns for a leaf,
\* located at position p, has elements[l] equal to the stored node at index
\* ((p div 2^l) XOR 1) of level l when that node exists and to zeros[l]
\* otherwise, for every level l in 0..depth-1.
C18_SiblingStructure ==
  /\ \A i \in 1..Len(trees) :
       Finalized(trees[i]) =>
         \A q \in 0..(MerkleTree_length(trees[i]) - 1) :
           LET r == MerkleTree_generateProof(trees[i], At(leavesOf(trees[i]), q))
           IN  ~r.threw /\ SiblingStructure(trees[i], r.proof)
  /\ ProofOfFinalized =>
       SiblingStructure(trees[result.treeIndex + 1], result.proof)

\* C18 witness: generateProof has returned, from a finalized tree of depth 2,
\* the proof of a leaf in the right half: its level-0 sibling is missing and
\* replaced by zeros[0], its level-1 sibling is the stored hash of the left
\* half, which is not zeros[1].
C18_Witness ==
  /\ ProofOfFinalized /\ treeDepth = 2
  /\ result.proof.indices = 2
  /\ MerkleTree_length(trees[result.treeIndex + 1]) = 3
  /\ result.proof.elements[1] = At(trees[result.treeIndex + 1].zeros, 0)
  /\ result.proof.elements[2] = At(At(trees[result.treeIndex + 1].tree, 1), 0)
  /\ result.proof.elements[2] # At(trees[result.treeIndex + 1].zeros, 1)

\* two byte arrays are equal as leaves: they denote the same number (for
\* the fixed-width leaves of the pool, the same bytes)
SameValue(a, b) == arrayToBigInt(a) = arrayToBigInt(b)

\* the positions of tree t whose leaf equals element
Matches(t, element) ==
  {p \in 0..(MerkleTree_length(t) - 1) : SameValue(At(leavesOf(t), p), element)}

\* MerkleTree.generateProof(element) on tree t fails with not-found iff no
\* leaf equals element, and otherwise reports the smallest matching position
LooksUp(t, element) ==
  LET r == MerkleTree_generateProof(t, element)
  IN  /\ r.threw <=> Matches(t, element) = {}
      /\ r.threw => r.error = "Couldn't find element in the MerkleTree"
      /\ ~r.threw =>
           /\ r.proof.indices \in Matches(t, element)
           /\ \A p \in Matches(t, element) : r.proof.indices <= p

\* in every state, every tree looks up every element as LooksUp says, and so
\* did the call that has just returned
LookupCorrect ==
  /\ \A i \in 1..Len(trees) : \A element \in Elements : LooksUp(trees[i], element)
  /\ (result.op = "generateProof" /\ ~result.threw) =>
       /\ result.proof.indices \in Matches(trees[result.treeIndex + 1], result.element)
       /\ \A p \in Matches(trees[result.treeIndex + 1], result.element) :
            result.proof.indices <= p

\* a generateProof call, failed or not, leaves every tree as it was
LookupFrame ==
  result'.op = "generateProof" => trees' = trees /\ txid' = txid

\* C19: MerkleTree.generateProof(element) fails with not-found iff no entry
\* of levels[0] equals element; otherwise proof.indices is the smallest
\* position whose leaf equals element; in both cases the tree's levels are
\* unchanged by the call.
C19_LeafLookup == []LookupCorrect /\ [][LookupFrame]_vars

\* C19 witness: generateProof has returned indices 1 for an element that is
\* also the leaf at position 2 of the same tree, and not the leaf at 0.
C19_Witness ==
  /\ result.op = "generateProof" /\ ~result.threw
  /\ result.proof.indices = 1
  /\ Matches(trees[result.treeIndex + 1], result.element) = {1, 2}

\* tree i is the same after the step but for levels[0]
SameAboveLeaves(i) ==
  /\ trees'[i].treeNumber = trees[i].treeNumber
  /\ trees'[i].depth = trees[i].depth
  /\ trees'[i].zeros = trees[i].zeros
  /\ Len(trees'[i].tree) = Len(trees[i].tree)
  /\ \A l \in 2..Len(trees[i].tree) : trees'[i].tree[l] = trees[i].tree[l]
  /\ MerkleTree_root(trees'[i]) = MerkleTree_root(trees[i])

\* a step that is not finalizeTree and creates no tree changes nothing but
\* levels[0] of the current tree, to which an insertion appends its batch
OnlyLeavesChange ==
  (result'.op # "finalizeTree" /\ Len(trees') = Len(trees)) =>
    /\ currentTreeIndex' = currentTreeIndex
    /\ \A i \in 1..Len(trees) : i # currentTreeIndex + 1 => trees'[i] = trees[i]
    /\ SameAboveLeaves(currentTreeIndex + 1)
    /\ MerkleHelper_root' = MerkleHelper_root
    /\ MerkleHelper_roots' = MerkleHelper_roots
    /\ (result'.op = "insertLeaves" /\ ~result'.threw) =>
         /\ leavesOf(currentTree') =
              leavesOf(currentTree)
                \o SubSeq(inserted', Len(inserted) + 1, Len(inserted'))
         /\ \A i \in 1..Len(txid.trees) : txid'.trees[i] = txid.trees[i]
    /\ result'.op # "insertLeaves" => leavesOf(currentTree') = leavesOf(currentTree)

\* C20: a non-spilling insertion changes only levels[0] of the current tree;
\* levels[1..depth], the tree's root, the pool's root and roots accessors and
\* all other trees stay as they are until finalizeTree runs.
C20_StalenessFrame == [][OnlyLeavesChange]_vars

\* C20 witness: two leaves have been inserted into the fresh depth-2 tree
\* and nothing finalized: level 1 is still empty and the root is still the
\* root of the empty tree.
C20_Witness ==
  /\ InsertCalled /\ ~result.threw /\ ~result.empty
  /\ treeDepth = 2 /\ Len(trees) = 1
  /\ MerkleTree_length(currentTree) = 2
  /\ At(currentTree.tree, 1) = <<>>
  /\ MerkleHelper_root = MerkleTree_root(createTree(0, 2, <<>>))
  /\ ~Finalized(currentTree)

\* the start positions MerkleTree.insertLeaves may be handed
TreeStartPositions == -1..(maxLeaves + 1)

\* MerkleTree.insertLeaves([], p) leaves every tree of both pools as it is
TreeEmptyNoOp ==
  \A p \in TreeStartPositions :
    /\ \A i \in 1..Len(trees) : MerkleTree_insertLeaves(trees[i], <<>>, p) = trees[i]
    /\ \A i \in 1..Len(txid.trees) :
         MerkleTree_insertLeaves(txid.trees[i], <<>>, p) = txid.trees[i]

\* an insertLeaves call of this step with an empty batch returned the
\* current tree index and changed nothing
PoolEmptyNoOp ==
  (result'.op = "insertLeaves" /\ result'.empty) =>
    /\ ~result'.threw
    /\ result'.ret = currentTreeIndex
    /\ trees' = trees
    /\ currentTreeIndex' = currentTreeIndex
    /\ inserted' = inserted
    /\ txid' = txid /\ nullifiers' = nullifiers

\* C21: MerkleHelper.insertLeaves([], startPosition) returns the current
\* tree index and changes nothing, for every startPosition (negative, at or
\* above capacity, or not the current leaf count included), and
\* MerkleTree.insertLeaves([], p) changes nothing.
C21_EmptyBatchNoOp == []TreeEmptyNoOp /\ [][PoolEmptyNoOp]_vars

\* C21 witness: an empty batch at start position -1 has returned the index
\* of the current tree of a pool that holds leaves in two trees.
C21_Witness ==
  /\ InsertCalled /\ result.empty /\ ~result.threw
  /\ result.startPosition = -1
  /\ result.ret = currentTreeIndex /\ currentTreeIndex = 1
  /\ MerkleTree_length(currentTree) >= 1

\* the utxo pool is as it was before the step
UtxoUnchanged == trees' = trees /\ currentTreeIndex' = currentTreeIndex

\* what each call of a step may change: insertTXIDLeaves and a call on the
\* txid pool the txid pool, insertNullifier the nullifier set, checkNullifier
\* nothing, a call on the utxo pool the utxo pool
ForestFrame ==
  /\ result'.op = "insertTXIDLeaves" => UtxoUnchanged /\ nullifiers' = nullifiers
  /\ (result'.op = "insertTXIDLeaves" /\ result'.threw) => txid' = txid
  /\ result'.op = "insertNullifier" => UtxoUnchanged /\ txid' = txid
  /\ result'.op = "checkNullifier" =>
       UtxoUnchanged /\ txid' = txid /\ nullifiers' = nullifiers
  /\ result'.op \in {"insertLeaves", "finalizeTree"} =>
       txid' = txid /\ nullifiers' = nullifiers
  /\ result'.op = "txid.finalizeTree" => UtxoUnchanged /\ nullifiers' = nullifiers
  /\ treeDepth' = treeDepth

\* C22: insertTXIDLeaves changes only the txid pool, on success and on
\* failure; insertNullifier changes only the nullifier set; checkNullifier
\* changes nothing; calls on the utxo pool never change the txid pool.
C22_ForestIndependence == [][ForestFrame]_vars

\* C22 witness: insertTXIDLeaves has just put a leaf into the txid pool of
\* a manager whose utxo pool holds a different leaf and whose nullifier set
\* is not empty.
C22_Witness ==
  /\ result.op = "insertTXIDLeaves" /\ ~result.threw /\ ~result.empty
  /\ MerkleTree_length(txid.trees[1]) = 1
  /\ MerkleTree_length(trees[1]) = 1
  /\ leavesOf(txid.trees[1]) # leavesOf(trees[1])
  /\ nullifiers # {}

\* the trees that are no longer current before the step are, after it, what
\* they were: leaves, interior levels and root
ClosedStayFrozen ==
  \A i \in 1..currentTreeIndex :
    /\ trees'[i] = trees[i]
    /\ MerkleHelper_roots'[i] = MerkleHelper_roots[i]

\* C23: once a tree is no longer the current tree, no later insertLeaves,
\* finalizeTree or generateProof call changes its leaves, interior levels or
\* root, so the roots accessor keeps its prefix for the non-current trees.
C23_ClosedTreesFrozen == [][ClosedStayFrozen]_vars

\* C23 witness: finalizeTree has run on the third tree of a pool, which
\* holds leaves, with two closed trees before it.
C23_Witness ==
  /\ JustFinalized /\ Len(trees) = 3 /\ currentTreeIndex = 2
  /\ MerkleTree_length(currentTree) >= 1
  /\ MerkleTree_length(trees[1]) >= 1 /\ MerkleTree_length(trees[2]) >= 1

\* every tree before the current one holds exactly 2^depth leaves and its
\* levels and root are the ones recomputed from its leaves
ClosedFullFinalized ==
  \A i \in 1..currentTreeIndex :
    /\ MerkleTree_length(trees[i]) = maxLeaves
    /\ Finalized(trees[i])
    /\ MerkleTree_root(trees[i]) # Undefined
    /\ MerkleTree_root(trees[i])
         = completeRoot(paddedLeaves(leavesOf(trees[i]), treeDepth))

\* a step that creates a tree creates it with the root of the tree before
\* it, finalized by the same step
SeededFromPrevious ==
  Len(trees') # Len(trees) =>
    /\ Len(trees') = Len(trees) + 1
    /\ Finalized(trees'[Len(trees)])
    /\ MerkleTree_root(trees'[Len(trees')]) = MerkleTree_root(trees'[Len(trees)])
    /\ MerkleTree_root(trees'[Len(trees')])
         = completeRoot(paddedLeaves(leavesOf(trees'[Len(trees)]), treeDepth))

\* C24: in every reachable pool state each tree with index below
\* currentTreeIndex holds exactly 2^depth leaves and has the root recomputed
\* from its own leaves, and each tree with index >= 1 was created with the
\* then-finalized root of the tree before it.
C24_ClosedFullAndFinalized == []ClosedFullFinalized /\ [][SeededFromPrevious]_vars

\* C24 witness: a depth-2 pool whose first tree was closed with four leaves
\* by an insertion that started inside it, the second tree still carrying
\* the first tree's root.
C24_Witness ==
  /\ treeDepth = 2 /\ currentTreeIndex = 1
  /\ InsertCalled /\ ~result.threw /\ result.startPosition >= 1
  /\ MerkleTree_length(trees[1]) = 4 /\ Finalized(trees[1])
  /\ ~Finalized(trees[2])
  /\ MerkleTree_root(trees[2]) = MerkleTree_root(trees[1])

\* levels[0] of trees i..Len(ts), one after the other
RECURSIVE concatLeaves(_, _)
concatLeaves(ts, i) ==
  IF i > Len(ts) THEN <<>> ELSE leavesOf(ts[i]) \o concatLeaves(ts, i + 1)

\* the leaves of the pool, in pool order, are the batches of the successful
\* insertLeaves calls in call order, with no position left undefined
OrderPreserved ==
  /\ concatLeaves(trees, 1) = inserted
  /\ \A p \in 1..Len(concatLeaves(trees, 1)) : concatLeaves(trees, 1)[p] # Undefined

\* a step keeps every leaf at its place in the pool, and a failed call adds
\* none
NoOverwrite ==
  /\ Len(concatLeaves(trees', 1)) >= Len(concatLeaves(trees, 1))
  /\ SubSeq(concatLeaves(trees', 1), 1, Len(concatLeaves(trees, 1)))
       = concatLeaves(trees, 1)
  /\ (result'.op = "insertLeaves" /\ result'.threw) =>
       trees' = trees /\ currentTreeIndex' = currentTreeIndex

\* C25: in every reachable pool state the concatenation of levels[0] of all
\* trees in pool order equals the concatenation, in call order, of the
\* batches of all successful insertLeaves calls; no populated position is
\* overwritten, none is left as a gap, and a failed call contributes nothing.
C25_GlobalOrder == []OrderPreserved /\ [][NoOverwrite]_vars

\* C25 witness: five leaves of two values, inserted by more than one call,
\* lie in three trees in the order of insertion.
C25_Witness ==
  /\ Len(trees) = 3 /\ Len(inserted) = 5
  /\ InsertCalled /\ ~result.threw /\ result.startPosition = 1
  /\ concatLeaves(trees, 1) = inserted
  /\ inserted[1] # inserted[5]

\* rebuildSparseTree keeps levels[0] of tree t, and a second call right
\* after the first changes no level and so not the root
RebuildSettles(t) ==
  LET once  == rebuildSparseTree(t)
      twice == rebuildSparseTree(once)
  IN  /\ leavesOf(once) = leavesOf(t)
      /\ twice.tree = once.tree
      /\ MerkleTree_root(twice) = MerkleTree_root(once)
      /\ twice = once

\* every tree of both pools settles, and after finalizeTree() a second
\* finalizeTree() would leave the pool as it is
FinalizeSettles ==
  /\ \A i \in 1..Len(trees) : RebuildSettles(trees[i])
  /\ \A i \in 1..Len(txid.trees) : RebuildSettles(txid.trees[i])
  /\ JustFinalized => finalizeTree(trees, currentTreeIndex) = trees

\* a finalizeTree step keeps the leaves of every tree
FinalizeKeepsLeaves ==
  result'.op = "finalizeTree" =>
    /\ Len(trees') = Len(trees)
    /\ \A i \in 1..Len(trees) : leavesOf(trees'[i]) = leavesOf(trees[i])

\* C26: rebuildSparseTree never changes levels[0], and calling it twice in
\* a row with no insertion in between leaves every level and the root
\* exactly as after the first call.
C26_FinalizeIdempotent == []FinalizeSettles /\ [][FinalizeKeepsLeaves]_vars

\* C26 witness: finalizeTree has run on a depth-2 tree of three leaves,
\* whose last leaf has no right sibling, and running it again would change
\* nothing.
C26_Witness ==
  /\ JustFinalized /\ treeDepth = 2 /\ Len(trees) = 1
  /\ MerkleTree_length(currentTree) = 3
  /\ rebuildSparseTree(currentTree) = currentTree
  /\ Len(At(currentTree.tree, 1)) = 2

====
